---- MODULE Spec2Model ----
(***************************************************************************)
(* A model of package crypto of kisom/filecrypt (src/crypto/crypto.go):    *)
(* Seal and Open, the helpers they call (randBytes, generateNonce,         *)
(* encrypt, decrypt, deriveKey, Zero) and the package variable Iterations. *)
(*                                                                         *)
(* Buffers are sequences of bytes (0..255) of the sizes the code uses.     *)
(* The two library primitives the package calls, scrypt.Key and NaCl       *)
(* secretbox, are not part of the repository.  They are modelled by what   *)
(* they do: scrypt.Key is a deterministic function of (passphrase, salt,   *)
(* N, r, p) that rejects an N that is not a power of two above 1;          *)
(* secretbox.Seal returns a 16-byte tag followed by the message under a    *)
(* keystream; secretbox.Open recomputes the tag and answers ok only when   *)
(* it matches.  The byte mixing used for both is collision free on the     *)
(* inputs of this model (the usual ideal-primitive assumption of a         *)
(* symbolic analysis), and crypto/rand is a stream that never repeats a    *)
(* value but may fall short (a read returning fewer bytes than asked).     *)
(***************************************************************************)
EXTENDS Integers, Sequences, FiniteSets, TLC

(***************************************************************************)
(* Program constants.                                                      *)
(***************************************************************************)
keySize == 32
nonceSize == 24
saltSize == 32
\* secretbox.Overhead: the size of the Poly1305 tag.
Overhead == 16
overhead == saltSize + Overhead + nonceSize
IterationsHigh == 1048576
IterationsLow == 32768
\* The block size and parallelism deriveKey passes to scrypt.Key.
scryptR == 8
scryptP == 1
\* The largest int of the platform (32-bit builds), as scrypt.Key checks it.
maxInt == 2147483647

ErrEncrypt == "crypto: encryption failed"
ErrDecrypt == "crypto: decryption failed"
ErrShortRead == "unexpected EOF"
ErrScrypt == "scrypt: N must be > 1 and a power of 2"
NoErr == "nil"

(***************************************************************************)
(* Bounds of the model.                                                    *)
(***************************************************************************)
\* Plaintexts have 0..MaxMsgLen bytes.
MaxMsgLen == 1
\* The random stream serves MaxDraws full reads; after them every read is short.
MaxDraws == 4
\* Calls that may be in flight at once in the concurrent specification.
MaxCalls == 2

MsgBytes == {68}
Messages == UNION {[1..n -> MsgBytes] : n \in 0..MaxMsgLen}
\* "c" and "ic": a passphrase and a longer one that ends with it.
Passphrases == {<<99>>, <<105, 99>>}
Calls == 1..MaxCalls

(***************************************************************************)
(* Bytes and slices.                                                       *)
(***************************************************************************)
RECURSIVE SumTo(_, _)
\* The position-weighted sum of the first n bytes of s; every weight is odd.
SumTo(s, n) == IF n = 0 THEN 0 ELSE (SumTo(s, n - 1) + (2 * n + 1) * s[n]) % 256

WSum(s) == SumTo(s, Len(s))

IsZero(b) == \A i \in 1..Len(b) : b[i] = 0

\* make([]byte, n), new([n]byte)
make(n) == [i \in 1..n |-> 0]

\* Go's copy(dst, src): min(len(dst), len(src)) bytes are copied.
copy(dst, src) == [i \in 1..Len(dst) |-> IF i <= Len(src) THEN src[i] ELSE dst[i]]

\* s[from:] with a 0-based offset, as Go writes it.
From(s, from) == SubSeq(s, from + 1, Len(s))

\* s[:to]
Upto(s, to) == SubSeq(s, 1, to)

\* A Zero that stops one byte early.
ZeroShort(in) == [i \in 1..Len(in) |-> IF i < Len(in) THEN 0 ELSE in[i]]

\* Zero attempts to zeroise its input.
Zero(in) == [i \in 1..Len(in) |-> 0]

(***************************************************************************)
(* crypto/rand: the k-th full read of the stream, and a short read.        *)
(***************************************************************************)
StreamByte(k, i) == (41 * k + 3 * i) % 256

\* io.ReadFull: a read that returns n of the size bytes asked for is an error.
ReadErr(size, n) == IF n < size THEN ErrShortRead ELSE NoErr

\* rand.Read(b) = io.ReadFull(rand.Reader, b)
randRead(k, size, n) ==
    [buf |-> [i \in 1..size |-> IF i <= n THEN StreamByte(k, i) ELSE 0],
     err |-> ReadErr(size, n)]

\* randBytes returns the buffer and the error of the read.
randBytes(k, size, n) == randRead(k, size, n)

\* A generateNonce that returns the nonce whatever the read said.
generateNonceNoCheck(k, n) == [nonce |-> randRead(k, nonceSize, n).buf, err |-> NoErr]

\* generateNonce returns nil on an error.
generateNonce(k, n) ==
    LET r == randRead(k, nonceSize, n)
    IN  IF r.err # NoErr THEN [nonce |-> <<>>, err |-> r.err]
        ELSE [nonce |-> r.buf, err |-> NoErr]

(***************************************************************************)
(* golang.org/x/crypto/scrypt, as deriveKey calls it.                      *)
(***************************************************************************)
RECURSIVE IsPow2(_)
IsPow2(n) == IF n <= 0 THEN FALSE
             ELSE IF n = 1 THEN TRUE
             ELSE IF n % 2 = 1 THEN FALSE
             ELSE IsPow2(n \div 2)

RECURSIVE Log2(_)
Log2(n) == IF n <= 1 THEN 0 ELSE 1 + Log2(n \div 2)

\* The parameter check at the head of scrypt.Key.
scryptParamsOk(N, r, p) ==
    /\ N > 1
    /\ IsPow2(N)
    /\ r * p < 1073741824
    /\ r <= (maxInt \div 128) \div p
    /\ r <= maxInt \div 256
    /\ N <= (maxInt \div 128) \div r

PassHash(pass) == (WSum(pass) + Len(pass)) % 256

\* scrypt.Key(password, salt, N, r, p, keyLen): (key, nil) or (nil, error).
scryptKey(pass, salt, N, r, p, keyLen) ==
    IF ~scryptParamsOk(N, r, p)
    THEN [key |-> <<>>, err |-> ErrScrypt]
    ELSE LET h    == PassHash(pass)
             cost == 7 * Log2(N) + r + p
         IN  [key |-> [j \in 1..keyLen |->
                         (3 * (IF Len(salt) = 0 THEN 0 ELSE salt[((j - 1) % Len(salt)) + 1])
                          + h * (2 * j + 1) + cost) % 256],
              err |-> NoErr]

(***************************************************************************)
(* NaCl secretbox.                                                         *)
(***************************************************************************)
Keystream(key, nonce, i) ==
    (key[((i - 1) % keySize) + 1] + nonce[((i - 1) % nonceSize) + 1] + i) % 256

\* The tag: eight bytes of the key, four of the nonce, four of the ciphertext, so
\* that a change of one of the three is not undone by a change of another.
Tag(key, nonce, ct) ==
    LET w == (WSum(ct) + Len(ct)) % 256
    IN  [t \in 1..Overhead |->
            IF t <= 8
            THEN (key[4 * t - 3] + 3 * key[4 * t - 2] + 5 * key[4 * t - 1] + 7 * key[4 * t]) % 256
            ELSE IF t <= 12
            THEN (nonce[6 * t - 53] + 3 * nonce[6 * t - 52] + 5 * nonce[6 * t - 51]
                  + 7 * nonce[6 * t - 50] + 9 * nonce[6 * t - 49] + 11 * nonce[6 * t - 48]) % 256
            ELSE (w + t) % 256]

\* secretbox.Seal(out, message, nonce, key): out, then the tag, then the ciphertext.
secretboxSeal(out, message, nonce, key) ==
    LET ct == [i \in 1..Len(message) |-> (message[i] + Keystream(key, nonce, i)) % 256]
    IN  out \o Tag(key, nonce, ct) \o ct

\* secretbox.Open(nil, box, nonce, key): (plaintext, true) or (nil, false).  With a
\* nil destination an empty plaintext comes back as a nil slice.
secretboxOpen(box, nonce, key) ==
    IF Len(box) < Overhead THEN [out |-> <<>>, outNil |-> TRUE, ok |-> FALSE]
    ELSE LET tag == Upto(box, Overhead)
             ct  == From(box, Overhead)
         IN  IF tag # Tag(key, nonce, ct)
             THEN [out |-> <<>>, outNil |-> TRUE, ok |-> FALSE]
             ELSE [out |-> [i \in 1..Len(ct) |-> (ct[i] + 256 - Keystream(key, nonce, i)) % 256],
                   outNil |-> Len(ct) = 0,
                   ok |-> TRUE]

(***************************************************************************)
(* The state: the package variable Iterations, the calls in flight (each   *)
(* with its own locals), the position of the random stream, the envelope   *)
(* last written to the output file and the run of the command-line program.*)
(***************************************************************************)
VARIABLES Iterations, calls, rng, stored, main

vars == <<Iterations, calls, rng, stored, main>>

\* A call slot nobody uses.  naclKey is the [keySize]byte array deriveKey allocates
\* (key in Seal and Open), scryptOut the slice scrypt.Key returned to deriveKey.
\* N, kdfErr, randErr, derives and ciphers record what the call did: the N it gave
\* scrypt, the error deriveKey dropped, the error of its last read of the random
\* stream, the numbers of deriveKey and secretbox calls it made.
\* boxKey and boxMsg are the caller's: the key and the message of the encrypt whose
\* box a direct decrypt is given.
IdleCall ==
    [op |-> "idle", pc |-> "idle", pass |-> <<>>, message |-> <<>>,
     salt |-> <<>>, naclKey |-> <<>>, scryptOut |-> <<>>, nonce |-> <<>>,
     out |-> <<>>, outNil |-> TRUE, err |-> NoErr,
     N |-> 0, kdfErr |-> NoErr, randErr |-> NoErr, derives |-> 0, ciphers |-> 0,
     boxKey |-> <<>>, boxMsg |-> <<>>]

\* No run of the command-line program.  pc is main's position, help, lower and unpack
\* are the flags -h, -l and -u of the run, writes counts the run's assignments to
\* crypto.Iterations.
NoRun == [pc |-> "exit", help |-> FALSE, lower |-> FALSE, unpack |-> FALSE, writes |-> 0]

\* No output file yet.
NoFile == [env |-> <<>>, pass |-> <<>>, msg |-> <<>>, N |-> 0, salt |-> <<>>, nonce |-> <<>>]

\* The keys the package's tests hand to encrypt and decrypt.
TestKeys == {[i \in 1..keySize |-> (53 * k + 5 * i) % 256] : k \in 1..2}

\* Every length of a short read of size bytes, and the two ends of them.
EveryShort(size) == 0..(size - 1)

EdgeShort(size) == {0, size - 1}

\* The lengths a read of size bytes may return: short at any time (the lengths in
\* the set short names), full while the stream lasts.
ReadLens(size, short) ==
    LET Short == IF short = "edge" THEN EdgeShort(size) ELSE EveryShort(size)
    IN  IF rng < MaxDraws THEN Short \cup {size} ELSE Short

(***************************************************************************)
(* The package's functions.                                                *)
(***************************************************************************)
\* An encrypt that seals under a zeroed nonce instead of the one it generated.
encryptStaticNonce(key, message, k, n) ==
    LET g == generateNonce(k, n)
    IN  IF g.err # NoErr
        THEN [out |-> <<>>, outNil |-> TRUE, err |-> ErrEncrypt, nonce |-> <<>>,
              ciphers |-> 0]
        ELSE LET nonce == make(nonceSize)
                 out   == copy(make(Len(nonce)), nonce)
             IN  [out |-> secretboxSeal(out, message, nonce, key), outNil |-> FALSE,
                  err |-> NoErr, nonce |-> nonce, ciphers |-> 1]

\* encrypt, its nonce read being the k-th of the stream and yielding n bytes.
encrypt(key, message, k, n) ==
    LET g == generateNonce(k, n)
    IN  IF g.err # NoErr
        THEN [out |-> <<>>, outNil |-> TRUE, err |-> ErrEncrypt, nonce |-> <<>>,
              ciphers |-> 0]
        ELSE LET out == copy(make(Len(g.nonce)), g.nonce)
             IN  [out |-> secretboxSeal(out, message, g.nonce, key), outNil |-> FALSE,
                  err |-> NoErr, nonce |-> g.nonce, ciphers |-> 1]

\* A decrypt without the length check.
decryptNoLen(key, message) ==
    LET nonce == copy(make(nonceSize), message)
        r     == secretboxOpen(From(message, nonceSize), nonce, key)
    IN  IF ~r.ok
        THEN [out |-> <<>>, outNil |-> TRUE, err |-> ErrDecrypt, nonce |-> nonce, ciphers |-> 1]
        ELSE [out |-> r.out, outNil |-> r.outNil, err |-> NoErr, nonce |-> nonce, ciphers |-> 1]

\* A decrypt that takes the nonce one byte late.
decryptShiftedNonce(key, message) ==
    IF Len(message) < nonceSize + Overhead
    THEN [out |-> <<>>, outNil |-> TRUE, err |-> ErrDecrypt, nonce |-> <<>>, ciphers |-> 0]
    ELSE LET nonce == copy(make(nonceSize), From(message, 1))
             r     == secretboxOpen(From(message, nonceSize), nonce, key)
         IN  IF ~r.ok
             THEN [out |-> <<>>, outNil |-> TRUE, err |-> ErrDecrypt, nonce |-> nonce,
                   ciphers |-> 1]
             ELSE [out |-> r.out, outNil |-> r.outNil, err |-> NoErr, nonce |-> nonce,
                   ciphers |-> 1]

\* A decrypt that does not look at what secretbox.Open answered.
decryptIgnoreOk(key, message) ==
    IF Len(message) < nonceSize + Overhead
    THEN [out |-> <<>>, outNil |-> TRUE, err |-> ErrDecrypt, nonce |-> <<>>, ciphers |-> 0]
    ELSE LET nonce == copy(make(nonceSize), Upto(message, nonceSize))
             r     == secretboxOpen(From(message, nonceSize), nonce, key)
         IN  [out |-> r.out, outNil |-> r.outNil, err |-> NoErr, nonce |-> nonce,
              ciphers |-> 1]

\* decrypt: the nonce is the head of the message, the box the rest.
decrypt(key, message) ==
    IF Len(message) < nonceSize + Overhead
    THEN [out |-> <<>>, outNil |-> TRUE, err |-> ErrDecrypt, nonce |-> <<>>, ciphers |-> 0]
    ELSE LET nonce == copy(make(nonceSize), Upto(message, nonceSize))
             r     == secretboxOpen(From(message, nonceSize), nonce, key)
         IN  IF ~r.ok
             THEN [out |-> <<>>, outNil |-> TRUE, err |-> ErrDecrypt, nonce |-> nonce,
                   ciphers |-> 1]
             ELSE [out |-> r.out, outNil |-> r.outNil, err |-> NoErr, nonce |-> nonce,
                   ciphers |-> 1]

\* A deriveKey that stretches the first half of the salt only.
deriveKeyHalfSalt(pass, salt) ==
    LET k == scryptKey(pass, Upto(salt, saltSize \div 2), Iterations, scryptR, scryptP, keySize)
    IN  [naclKey |-> copy(make(keySize), k.key), scryptOut |-> Zero(k.key),
         N |-> Iterations, kdfErr |-> k.err]

\* A deriveKey that returns without zeroing the slice scrypt.Key gave it.
deriveKeyNoZero(pass, salt) ==
    LET k == scryptKey(pass, salt, Iterations, scryptR, scryptP, keySize)
    IN  [naclKey |-> copy(make(keySize), k.key), scryptOut |-> k.key,
         N |-> Iterations, kdfErr |-> k.err]

\* A deriveKey that stretches at the default cost whatever Iterations holds.
deriveKeyFixedCost(pass, salt) ==
    LET k == scryptKey(pass, salt, IterationsHigh, scryptR, scryptP, keySize)
    IN  [naclKey |-> copy(make(keySize), k.key), scryptOut |-> Zero(k.key),
         N |-> Iterations, kdfErr |-> k.err]

\* deriveKey: the array it returns, the slice it leaves behind, the N it read and
\* the error of scrypt.Key, which it drops.
deriveKey(pass, salt) ==
    LET k == scryptKey(pass, salt, Iterations, scryptR, scryptP, keySize)
    IN  [naclKey |-> copy(make(keySize), k.key), scryptOut |-> Zero(k.key),
         N |-> Iterations, kdfErr |-> k.err]

\* Seal as a whole: the salt's read is the ks-th of the stream and yields ns bytes,
\* the nonce's the kn-th and yields nn.
Seal(pass, message, ks, ns, kn, nn) ==
    LET r == randBytes(ks, saltSize, ns)
    IN  IF r.err # NoErr THEN [out |-> <<>>, outNil |-> TRUE, err |-> ErrEncrypt]
        ELSE LET key == deriveKey(pass, r.buf).naclKey
                 e   == encrypt(key, message, kn, nn)
             IN  IF e.err # NoErr THEN [out |-> <<>>, outNil |-> TRUE, err |-> ErrEncrypt]
                 ELSE [out |-> r.buf \o e.out, outNil |-> FALSE, err |-> NoErr]

\* Open as a whole.
Open(pass, message) ==
    IF Len(message) < overhead THEN [out |-> <<>>, outNil |-> TRUE, err |-> ErrDecrypt]
    ELSE LET key == deriveKey(pass, Upto(message, saltSize)).naclKey
             d   == decrypt(key, From(message, saltSize))
         IN  IF d.err # NoErr THEN [out |-> <<>>, outNil |-> TRUE, err |-> ErrDecrypt]
             ELSE [out |-> d.out, outNil |-> d.outNil, err |-> NoErr]

(***************************************************************************)
(* Calls.  A caller starts a call in a free slot, the call runs statement  *)
(* by statement, and Return hands its results to the caller.               *)
(***************************************************************************)
\* The locals of a call as it starts.
Started(op, pc, pass, message, key) ==
    [IdleCall EXCEPT !.op = op, !.pc = pc, !.pass = pass, !.message = message,
                     !.naclKey = key]

\* Seal(pass, message)
CallSeal(c) ==
    /\ calls[c].op = "idle"
    /\ \E pass \in Passphrases, message \in Messages :
        calls' = [calls EXCEPT ![c] = Started("Seal", "rand", pass, message, <<>>)]
    /\ UNCHANGED <<main, Iterations, rng, stored>>

\* A byte with one bit inverted.
FlipByte(b, bit) ==
    LET w == 2 ^ bit
    IN  IF (b \div w) % 2 = 1 THEN b - w ELSE b + w

\* A buffer with one bit of one byte inverted.
FlipBit(s, pos, bit) == [s EXCEPT ![pos] = FlipByte(s[pos], bit)]

\* Open(pass, message) on the file as it was written.
OpenStored(c) ==
    /\ calls[c].op = "idle"
    /\ stored # NoFile
    /\ \E pass \in Passphrases :
        calls' = [calls EXCEPT ![c] = Started("Open", "len", pass, stored.env, <<>>)]
    /\ UNCHANGED <<main, Iterations, rng, stored>>

\* Open on the file with one bit inverted.
OpenTampered(c) ==
    /\ calls[c].op = "idle"
    /\ stored # NoFile
    /\ \E pass \in Passphrases, pos \in 1..Len(stored.env), bit \in 0..7 :
        calls' = [calls EXCEPT ![c] =
            Started("Open", "len", pass, FlipBit(stored.env, pos, bit), <<>>)]
    /\ UNCHANGED <<main, Iterations, rng, stored>>

\* The inputs of k bytes: a zeroed buffer and the heads of what was written.
ShortInputs(k, written) == {make(k)} \cup {Upto(w, k) : w \in {x \in written : Len(x) >= k}}

\* Open on an input shorter than overhead.
OpenShort(c) ==
    /\ calls[c].op = "idle"
    /\ \E pass \in Passphrases, k \in 0..(overhead - 1) :
        \E in \in ShortInputs(k, {stored.env}) :
            calls' = [calls EXCEPT ![c] = Started("Open", "len", pass, in, <<>>)]
    /\ UNCHANGED <<main, Iterations, rng, stored>>

\* encrypt(key, message), called as the package's tests call it.
CallEncrypt(c) ==
    /\ calls[c].op = "idle"
    /\ \E key \in TestKeys, message \in Messages :
        calls' = [calls EXCEPT ![c] = Started("encrypt", "encrypt", <<>>, message, key)]
    /\ UNCHANGED <<main, Iterations, rng, stored>>

\* The caller of an encrypt that returned a box.
HasBox(c) == calls[c].op = "encrypt" /\ calls[c].pc = "done" /\ calls[c].err = NoErr

\* decrypt(key, ct) on the box encrypt just returned, as the package's tests do.
DecryptBox(c) ==
    /\ HasBox(c)
    /\ \E key \in TestKeys :
        calls' = [calls EXCEPT ![c] =
            [Started("decrypt", "decrypt", <<>>, calls[c].out, key)
                EXCEPT !.boxKey = calls[c].naclKey, !.boxMsg = calls[c].message]]
    /\ UNCHANGED <<main, Iterations, rng, stored>>

\* decrypt on an input shorter than a nonce and a tag.
DecryptShort(c) ==
    /\ calls[c].op = "idle" \/ HasBox(c)
    /\ \E key \in TestKeys, k \in 0..(nonceSize + Overhead - 1) :
        \E in \in ShortInputs(k, {calls[c].out}) :
            calls' = [calls EXCEPT ![c] = Started("decrypt", "decrypt", <<>>, in, key)]
    /\ UNCHANGED <<main, Iterations, rng, stored>>

\* Seal: salt, err := randBytes(saltSize); if err != nil { return nil, ErrEncrypt }
\* The partly filled buffer of a short read is dropped with the frame.
SealRand(c, short) ==
    /\ calls[c].op = "Seal" /\ calls[c].pc = "rand"
    /\ \E n \in ReadLens(saltSize, short) :
        LET r == randBytes(rng + 1, saltSize, n)
        IN  /\ calls' = [calls EXCEPT ![c] =
                  IF r.err # NoErr
                  THEN [@ EXCEPT !.randErr = ReadErr(saltSize, n), !.out = <<>>,
                                 !.outNil = TRUE, !.err = ErrEncrypt, !.pc = "done"]
                  ELSE [@ EXCEPT !.randErr = ReadErr(saltSize, n), !.salt = r.buf,
                                 !.pc = "derive"]]
            /\ rng' = IF n < saltSize THEN rng ELSE rng + 1
    /\ UNCHANGED <<main, Iterations, stored>>

\* Open: if len(message) < overhead { return nil, ErrDecrypt }
OpenLen(c) ==
    /\ calls[c].op = "Open" /\ calls[c].pc = "len"
    /\ calls' = [calls EXCEPT ![c] =
          IF Len(calls[c].message) < overhead
          THEN [@ EXCEPT !.out = <<>>, !.outNil = TRUE, !.err = ErrDecrypt, !.pc = "done"]
          ELSE [@ EXCEPT !.salt = Upto(calls[c].message, saltSize), !.pc = "derive"]]
    /\ UNCHANGED <<main, Iterations, rng, stored>>

\* One key array for the whole package.
keyHoldersShared(c) == Calls

\* The calls that hold the array deriveKey allocates in call c: new([keySize]byte)
\* is a fresh array each time, and only the call itself gets the pointer.
keyHolders(c) == {c}

\* The calls with the key array of call c written to.
WithKey(c, key) ==
    [d \in Calls |-> IF d \in keyHolders(c) THEN [calls[d] EXCEPT !.naclKey = key]
                     ELSE calls[d]]

\* key := deriveKey(pass, salt) in Seal, deriveKey(pass, message[:saltSize]) in Open
DeriveKey(c) ==
    /\ calls[c].pc = "derive"
    /\ LET d == deriveKey(calls[c].pass, calls[c].salt)
       IN  calls' = [WithKey(c, d.naclKey) EXCEPT ![c] =
              [@ EXCEPT !.naclKey = d.naclKey, !.scryptOut = d.scryptOut, !.N = d.N,
                        !.kdfErr = d.kdfErr, !.derives = @ + 1,
                        !.pc = IF calls[c].op = "Seal" THEN "encrypt" ELSE "decrypt"]]
    /\ UNCHANGED <<main, Iterations, rng, stored>>

\* out, err := encrypt(key, message)
Encrypt(c, short) ==
    /\ calls[c].pc = "encrypt"
    /\ \E n \in ReadLens(nonceSize, short) :
        LET e == encrypt(calls[c].naclKey, calls[c].message, rng + 1, n)
        IN  /\ calls' = [calls EXCEPT ![c] =
                  [@ EXCEPT !.out = e.out, !.outNil = e.outNil, !.err = e.err,
                            !.nonce = e.nonce, !.randErr = ReadErr(nonceSize, n),
                            !.ciphers = @ + e.ciphers,
                            !.pc = IF calls[c].op = "Seal" THEN "zero" ELSE "done"]]
            /\ rng' = IF n < nonceSize THEN rng ELSE rng + 1
    /\ UNCHANGED <<main, Iterations, stored>>

\* out, err := decrypt(key, message[saltSize:]) in Open; decrypt(key, message) direct
Decrypt(c) ==
    /\ calls[c].pc = "decrypt"
    /\ LET in == IF calls[c].op = "Open" THEN From(calls[c].message, saltSize)
                 ELSE calls[c].message
           d  == decrypt(calls[c].naclKey, in)
       IN  calls' = [calls EXCEPT ![c] =
              [@ EXCEPT !.out = d.out, !.outNil = d.outNil, !.err = d.err,
                        !.nonce = d.nonce, !.ciphers = @ + d.ciphers,
                        !.pc = IF calls[c].op = "Open" THEN "zero" ELSE "done"]]
    /\ UNCHANGED <<main, Iterations, rng, stored>>

\* Zero(key[:]) // Zero key immediately after
ZeroKey(c) ==
    /\ calls[c].pc = "zero"
    /\ calls' = [WithKey(c, Zero(calls[c].naclKey)) EXCEPT ![c] =
                    [@ EXCEPT !.naclKey = Zero(@), !.pc = "ret"]]
    /\ UNCHANGED <<main, Iterations, rng, stored>>

\* An envelope with the salt behind the box.
envelopeSaltLast(salt, out) == out \o salt

\* out = append(salt, out...)
envelope(salt, out) == salt \o out

\* Seal: if err != nil { return nil, ErrEncrypt }; out = append(salt, out...)
SealRet(c) ==
    /\ calls[c].op = "Seal" /\ calls[c].pc = "ret"
    /\ calls' = [calls EXCEPT ![c] =
          IF @.err # NoErr
          THEN [@ EXCEPT !.out = <<>>, !.outNil = TRUE, !.err = ErrEncrypt, !.pc = "done"]
          ELSE [@ EXCEPT !.out = envelope(calls[c].salt, calls[c].out), !.outNil = FALSE, !.pc = "done"]]
    /\ UNCHANGED <<main, Iterations, rng, stored>>

\* Open: if err != nil { return nil, ErrDecrypt }; return out, nil
OpenRet(c) ==
    /\ calls[c].op = "Open" /\ calls[c].pc = "ret"
    /\ calls' = [calls EXCEPT ![c] =
          IF @.err # NoErr
          THEN [@ EXCEPT !.out = <<>>, !.outNil = TRUE, !.err = ErrDecrypt, !.pc = "done"]
          ELSE [@ EXCEPT !.pc = "done"]]
    /\ UNCHANGED <<main, Iterations, rng, stored>>

\* What Seal wrote, with the inputs and the values it was made from.
Written(call) ==
    [env |-> call.out, pass |-> call.pass, msg |-> call.message, N |-> call.N,
     salt |-> call.salt, nonce |-> call.nonce]

\* The caller takes the results: main writes a sealed envelope to the output file,
\* over what the file held.
Return(c) ==
    /\ calls[c].pc = "done"
    /\ stored' = IF calls[c].op = "Seal" /\ calls[c].err = NoErr
                 THEN Written(calls[c])
                 ELSE stored
    /\ calls' = [calls EXCEPT ![c] = IdleCall]
    /\ UNCHANGED <<main, Iterations, rng>>

\* main: if *lower { crypto.Iterations = crypto.IterationsLow }; the default is
\* IterationsHigh.  The preset changes only while no call is in flight.
SetPreset ==
    /\ \A c \in Calls : calls[c].op = "idle"
    /\ \E n \in {IterationsHigh, IterationsLow} : n # Iterations /\ Iterations' = n
    /\ UNCHANGED <<main, calls, rng, stored>>

Init ==
    /\ Iterations = IterationsHigh
    /\ calls = [c \in Calls |-> IdleCall]
    /\ rng = 0
    /\ stored = NoFile
    /\ main = NoRun

\* The statements of a call in flight.
Step(c, short) ==
    \/ SealRand(c, short)
    \/ OpenLen(c)
    \/ DeriveKey(c)
    \/ Encrypt(c, short)
    \/ Decrypt(c)
    \/ ZeroKey(c)
    \/ SealRet(c)
    \/ OpenRet(c)
    \/ Return(c)

\* One caller at a time: Seal, Open on what was written, and the direct calls of
\* encrypt and decrypt.
Next ==
    \/ SetPreset
    \/ CallSeal(1)
    \/ OpenStored(1)
    \/ CallEncrypt(1)
    \/ DecryptBox(1)
    \/ Step(1, "every")

Spec == Init /\ [][Next]_vars

\* Seal while there is no file yet.
SealFirst(c) == stored = NoFile /\ CallSeal(c)

\* One caller that seals a file and then hands Open the file with one bit inverted.
NextTamper ==
    \/ SealFirst(1)
    \/ OpenTampered(1)
    \/ Step(1, "every")

SpecTamper == Init /\ [][NextTamper]_vars

\* One caller that also hands Open and decrypt inputs that are too short.
NextShort ==
    \/ CallSeal(1)
    \/ OpenStored(1)
    \/ OpenShort(1)
    \/ CallEncrypt(1)
    \/ DecryptShort(1)
    \/ Step(1, "every")

SpecShort == Init /\ [][NextShort]_vars

\* The values an importer of the package may give the exported variable Iterations:
\* the presets, zero, and a number that is no power of two.
CostValues == {IterationsHigh, IterationsLow, 0, 1000}

\* crypto.Iterations = n
SetIterations ==
    /\ \A c \in Calls : calls[c].op = "idle"
    /\ \E n \in CostValues : n # Iterations /\ Iterations' = n
    /\ UNCHANGED <<main, calls, rng, stored>>

\* One caller, and Iterations set to any value.
NextAnyCost ==
    \/ SetIterations
    \/ CallSeal(1)
    \/ OpenStored(1)
    \/ Step(1, "every")

SpecAnyCost == Init /\ [][NextAnyCost]_vars

\* The passphrases no call in flight was given: concurrent callers each work under
\* a passphrase of their own.
FreePass == Passphrases \ {calls[d].pass : d \in {e \in Calls : calls[e].op # "idle"}}

\* Seal of a plaintext of the greatest length, while there is no file yet.
SealLongest(c) ==
    /\ calls[c].op = "idle"
    /\ stored = NoFile
    /\ \E pass \in FreePass, message \in {m \in Messages : Len(m) = MaxMsgLen} :
        calls' = [calls EXCEPT ![c] = Started("Seal", "rand", pass, message, <<>>)]
    /\ UNCHANGED <<main, Iterations, rng, stored>>

\* Open on the file as Seal wrote it.
OpenFile(c) ==
    /\ calls[c].op = "idle"
    /\ stored # NoFile
    /\ \E pass \in FreePass :
        calls' = [calls EXCEPT ![c] = Started("Open", "len", pass, stored.env, <<>>)]
    /\ UNCHANGED <<main, Iterations, rng, stored>>

\* Callers in every slot: the calls run interleaved, statement by statement; a short
\* read returns nothing or all but one byte.
NextConc ==
    \E c \in Calls :
        \/ SealLongest(c)
        \/ OpenFile(c)
        \/ Step(c, "edge")

\* No step changes Iterations: the preset stays as it was before the first call.
SpecConc == Init /\ [][NextConc]_vars

(***************************************************************************)
(* The command-line program: one run of main after the other, each a new   *)
(* process over the same output file.                                      *)
(***************************************************************************)
\* A process starts: the package variables are initialised, Iterations to
\* IterationsHigh, and main parses its flags.
MainParse ==
    /\ main.pc = "exit"
    /\ \A c \in Calls : calls[c].op = "idle"
    /\ Iterations' = IterationsHigh
    /\ \E help \in BOOLEAN, lower \in BOOLEAN, unpack \in BOOLEAN :
        main' = [pc |-> "flags", help |-> help, lower |-> lower, unpack |-> unpack,
                 writes |-> 0]
    /\ UNCHANGED <<calls, rng, stored>>

\* if *help || flag.NArg() == 0 { usage(); return }
MainUsage ==
    /\ main.pc = "flags"
    /\ main.help
    /\ main' = [main EXCEPT !.pc = "exit"]
    /\ UNCHANGED <<Iterations, calls, rng, stored>>

\* A main that applies the -l flag only once the call is under way.
MainLowerLate ==
    \/ /\ main.pc = "flags"
       /\ ~main.help
       /\ main' = [main EXCEPT !.pc = "args"]
       /\ UNCHANGED <<Iterations, calls, rng, stored>>
    \/ /\ main.pc = "call"
       /\ main.lower
       /\ main.writes = 0
       /\ Iterations' = IterationsLow
       /\ main' = [main EXCEPT !.writes = 1]
       /\ UNCHANGED <<calls, rng, stored>>

\* if *lower { crypto.Iterations = crypto.IterationsLow }
MainLower ==
    /\ main.pc = "flags"
    /\ ~main.help
    /\ Iterations' = IF main.lower THEN IterationsLow ELSE Iterations
    /\ main' = [main EXCEPT !.pc = "args",
                            !.writes = IF main.lower THEN @ + 1 ELSE @]
    /\ UNCHANGED <<calls, rng, stored>>

\* The exits before the call: -u with -x, no passphrase, no file to read, nothing
\* to pack (os.Exit, dieIf, dieWith).
MainDie ==
    /\ main.pc = "args"
    /\ main' = [main EXCEPT !.pc = "exit"]
    /\ UNCHANGED <<Iterations, calls, rng, stored>>

\* in, err = crypto.Open(pass, in) on the file read.
MainOpen ==
    /\ main.pc = "args"
    /\ main.unpack
    /\ stored # NoFile
    /\ \E pass \in Passphrases :
        calls' = [calls EXCEPT ![1] = Started("Open", "len", pass, stored.env, <<>>)]
    /\ main' = [main EXCEPT !.pc = "call"]
    /\ UNCHANGED <<Iterations, rng, stored>>

\* fData, err = crypto.Seal(pass, fData) on the packed files.
MainSeal ==
    /\ main.pc = "args"
    /\ ~main.unpack
    /\ \E pass \in Passphrases, message \in Messages :
        calls' = [calls EXCEPT ![1] = Started("Seal", "rand", pass, message, <<>>)]
    /\ main' = [main EXCEPT !.pc = "call"]
    /\ UNCHANGED <<Iterations, rng, stored>>

\* main returns (or dies of the call's error) once it took the call's results.
MainExit ==
    /\ main.pc = "call"
    /\ calls[1].op = "idle"
    /\ main' = [main EXCEPT !.pc = "exit"]
    /\ UNCHANGED <<Iterations, calls, rng, stored>>

NextMain ==
    \/ MainParse
    \/ MainUsage
    \/ MainLower
    \/ MainDie
    \/ MainOpen
    \/ MainSeal
    \/ Step(1, "every")
    \/ MainExit

SpecMain == Init /\ [][NextMain]_vars

(***************************************************************************)
(* Properties.                                                             *)
(***************************************************************************)
Done(c, op) == calls[c].op = op /\ calls[c].pc = "done"

\* Open was given the file as Seal wrote it.
OnStored(c) == stored # NoFile /\ calls[c].message = stored.env

\* The result "nil, err".
Failed(c, err) == calls[c].err = err /\ calls[c].outNil /\ calls[c].out = <<>>

\* The key scrypt makes of the call's passphrase and salt under the N the call read.
DerivedKey(call) == scryptKey(call.pass, call.salt, call.N, scryptR, scryptP, keySize).key

\* C1: Open of what Seal wrote, with the same passphrase and with Iterations as Seal
\* read it, returns the plaintext Seal was given (the empty one too) and no error.
RoundTrip ==
    \A c \in Calls :
        (Done(c, "Open") /\ OnStored(c) /\ calls[c].pass = stored.pass
            /\ calls[c].N = stored.N)
        => (calls[c].err = NoErr /\ calls[c].out = stored.msg)

RoundTripWitness ==
    \E c \in Calls :
        /\ Done(c, "Open") /\ OnStored(c)
        /\ calls[c].pass = stored.pass /\ calls[c].N = stored.N
        /\ Len(stored.msg) > 0 /\ calls[c].out = stored.msg /\ calls[c].err = NoErr

\* C2: in Seal and in Open the key array holds the derived key until the one cipher
\* call has used it, is all zero from then on (before the error is looked at and at
\* every return), and the slice scrypt.Key returned is all zero once deriveKey is back.
KeyErased ==
    \A c \in Calls :
        calls[c].op \in {"Seal", "Open"} =>
            /\ calls[c].ciphers <= 1
            /\ calls[c].pc \in {"rand", "len", "derive"} =>
                   (calls[c].naclKey = <<>> /\ calls[c].scryptOut = <<>>
                        /\ calls[c].ciphers = 0)
            /\ calls[c].pc \in {"encrypt", "decrypt"} =>
                   (calls[c].naclKey = DerivedKey(calls[c]) /\ IsZero(calls[c].scryptOut)
                        /\ Len(calls[c].scryptOut) = keySize /\ calls[c].ciphers = 0)
            /\ calls[c].pc \in {"ret", "done"} =>
                   (IsZero(calls[c].naclKey) /\ IsZero(calls[c].scryptOut))

\* Open has failed to authenticate and returned: a key was derived and is gone.
KeyErasedWitness ==
    \E c \in Calls :
        /\ Done(c, "Open") /\ calls[c].err = ErrDecrypt
        /\ calls[c].derives = 1 /\ calls[c].ciphers = 1
        /\ Len(calls[c].naclKey) = keySize /\ IsZero(calls[c].naclKey)
        /\ Len(calls[c].scryptOut) = keySize /\ IsZero(calls[c].scryptOut)

\* C3: Open of what Seal wrote under another passphrase returns nil and ErrDecrypt,
\* and so does decrypt of a box under a key that is not the one encrypt was given.
WrongPassphrase ==
    \A c \in Calls :
        /\ (Done(c, "Open") /\ OnStored(c) /\ calls[c].pass # stored.pass)
               => Failed(c, ErrDecrypt)
        /\ (Done(c, "decrypt") /\ calls[c].boxKey # <<>>
                /\ calls[c].naclKey # calls[c].boxKey)
               => Failed(c, ErrDecrypt)

WrongPassphraseWitness ==
    \E c \in Calls :
        /\ Done(c, "Open") /\ OnStored(c)
        /\ calls[c].pass # stored.pass /\ calls[c].N = stored.N
        /\ Len(stored.msg) > 0 /\ calls[c].ciphers = 1 /\ Failed(c, ErrDecrypt)

\* C6: Seal returns nil and ErrEncrypt when a read of the random stream fell short
\* (the salt's or the nonce's), and a whole envelope and no error otherwise; encrypt
\* returns an error on every short read; an error never comes with bytes.
SealFailsClosed ==
    \A c \in Calls :
        /\ Done(c, "Seal") =>
            /\ calls[c].randErr # NoErr => Failed(c, ErrEncrypt)
            /\ calls[c].randErr = NoErr =>
                   (calls[c].err = NoErr /\ ~calls[c].outNil
                        /\ Len(calls[c].out) = Len(calls[c].message) + overhead)
        /\ Done(c, "encrypt") =>
            /\ calls[c].randErr # NoErr => Failed(c, ErrEncrypt)
            /\ calls[c].randErr = NoErr => (calls[c].err = NoErr /\ ~calls[c].outNil)
        /\ (calls[c].op \in {"Seal", "encrypt"} /\ calls[c].err # NoErr)
               => (calls[c].outNil /\ calls[c].out = <<>>)

\* Seal had its salt and its key, and then the nonce's read fell short.
SealFailsClosedWitness ==
    \E c \in Calls :
        /\ Done(c, "Seal") /\ calls[c].derives = 1 /\ calls[c].randErr # NoErr
        /\ Failed(c, ErrEncrypt)

\* C7: an envelope Seal returns has len(message) + overhead bytes: the salt given to
\* deriveKey, then the nonce given to secretbox, then what secretbox returned; Open
\* takes the salt and the nonce from the same places.
EnvelopeLayout ==
    \A c \in Calls :
        /\ (Done(c, "Seal") /\ calls[c].err = NoErr) =>
            /\ Len(calls[c].out) = Len(calls[c].message) + overhead
            /\ SubSeq(calls[c].out, 1, saltSize) = calls[c].salt
            /\ SubSeq(calls[c].out, saltSize + 1, saltSize + nonceSize) = calls[c].nonce
            /\ Len(calls[c].salt) = saltSize /\ Len(calls[c].nonce) = nonceSize
            /\ From(calls[c].out, saltSize + nonceSize)
                   = secretboxSeal(<<>>, calls[c].message, calls[c].nonce,
                                   DerivedKey(calls[c]))
        /\ (calls[c].op = "Open" /\ calls[c].derives = 1) =>
               calls[c].salt = SubSeq(calls[c].message, 1, saltSize)
        /\ (calls[c].op = "Open" /\ calls[c].ciphers = 1) =>
               calls[c].nonce = SubSeq(calls[c].message, saltSize + 1, saltSize + nonceSize)

EnvelopeLayoutWitness ==
    \E c \in Calls :
        /\ Done(c, "Seal") /\ calls[c].err = NoErr /\ Len(calls[c].message) > 0
        /\ Len(calls[c].out) = Len(calls[c].message) + overhead
        /\ SubSeq(calls[c].out, 1, saltSize) = calls[c].salt

\* C9: a Seal that returns an envelope used a salt and a nonce that the Seal before it
\* did not use, so the two envelopes differ (also for the same passphrase and message),
\* and its nonce is not its salt's head either.
FreshSaltAndNonce ==
    \A c \in Calls :
        (Done(c, "Seal") /\ calls[c].err = NoErr /\ stored # NoFile) =>
            /\ calls[c].salt # stored.salt
            /\ calls[c].nonce # stored.nonce
            /\ calls[c].out # stored.env
            /\ SubSeq(calls[c].out, 1, saltSize) # SubSeq(stored.env, 1, saltSize)
            /\ SubSeq(calls[c].out, saltSize + 1, saltSize + nonceSize)
                   # SubSeq(stored.env, saltSize + 1, saltSize + nonceSize)

FreshSaltAndNonceWitness ==
    \E c \in Calls :
        /\ Done(c, "Seal") /\ calls[c].err = NoErr /\ stored # NoFile
        /\ calls[c].pass = stored.pass /\ calls[c].message = stored.msg
        /\ calls[c].N = stored.N
        /\ calls[c].out # stored.env

\* message is base with exactly one bit of one byte inverted.
OneBitFlipped(message, base) ==
    /\ Len(message) = Len(base)
    /\ \E pos \in 1..Len(base) :
        /\ \E bit \in 0..7 : message[pos] = FlipByte(base[pos], bit)
        /\ \A q \in 1..Len(base) : q # pos => message[q] = base[q]

\* C4: Open of what Seal wrote with one bit inverted, in the salt, the nonce, the tag
\* or the ciphertext, under Seal's passphrase, returns nil and ErrDecrypt.
TamperDetected ==
    \A c \in Calls :
        (Done(c, "Open") /\ stored # NoFile /\ calls[c].pass = stored.pass
            /\ OneBitFlipped(calls[c].message, stored.env))
        => Failed(c, ErrDecrypt)

\* The bit was in the salt, and Open read Iterations as Seal had.
TamperDetectedWitness ==
    \E c \in Calls :
        /\ Done(c, "Open") /\ stored # NoFile /\ calls[c].pass = stored.pass
        /\ calls[c].N = stored.N /\ Len(stored.msg) > 0
        /\ \E pos \in 1..saltSize, bit \in 0..7 :
               calls[c].message = FlipBit(stored.env, pos, bit)
        /\ calls[c].ciphers = 1 /\ Failed(c, ErrDecrypt)

\* C5: Open returns nil and ErrDecrypt on an input shorter than overhead without
\* calling deriveKey or secretbox, and decrypt returns nil and ErrDecrypt on an input
\* shorter than a nonce and a tag without calling secretbox.
ShortInputRejected ==
    \A c \in Calls :
        /\ (calls[c].op = "Open" /\ Len(calls[c].message) < overhead) =>
            /\ calls[c].pc \in {"len", "done"}
            /\ calls[c].derives = 0 /\ calls[c].ciphers = 0
            /\ calls[c].naclKey = <<>> /\ calls[c].scryptOut = <<>>
            /\ calls[c].pc = "done" => Failed(c, ErrDecrypt)
        /\ (calls[c].op = "decrypt" /\ Len(calls[c].message) < nonceSize + Overhead) =>
            /\ calls[c].ciphers = 0
            /\ calls[c].pc = "done" => Failed(c, ErrDecrypt)

\* Open has returned on the first overhead - 1 bytes of an envelope.
ShortInputRejectedWitness ==
    \E c \in Calls :
        /\ Done(c, "Open") /\ stored # NoFile
        /\ calls[c].message = Upto(stored.env, overhead - 1)
        /\ calls[c].derives = 0 /\ Failed(c, ErrDecrypt)

\* C8: when scrypt.Key rejects the cost parameters, Seal and Open return an error and
\* make no cipher call.
CostFailureSurfaced ==
    \A c \in Calls :
        (calls[c].op \in {"Seal", "Open"} /\ calls[c].kdfErr # NoErr) =>
            /\ calls[c].ciphers = 0
            /\ calls[c].pc = "done" => calls[c].err # NoErr

\* What call c returned.
Result(c) == [out |-> calls[c].out, outNil |-> calls[c].outNil, err |-> calls[c].err]

\* The call's own part of C10: its key is the one made of its own passphrase and salt
\* when the cipher is called and zero when it returns, and it returns what Seal or
\* Open returns on its inputs and its reads of the random stream when run alone.
RunsAsAlone(c) ==
    /\ (calls[c].op \in {"Seal", "Open"} /\ calls[c].pc \in {"encrypt", "decrypt"})
           => (calls[c].naclKey = DerivedKey(calls[c]) /\ calls[c].N = Iterations)
    /\ (calls[c].op \in {"Seal", "Open"} /\ calls[c].pc \in {"ret", "done"})
           => (IsZero(calls[c].naclKey) /\ IsZero(calls[c].scryptOut))
    /\ Done(c, "Open") => Result(c) = Open(calls[c].pass, calls[c].message)
    /\ (Done(c, "Seal") /\ calls[c].err # NoErr)
           => (calls[c].randErr # NoErr
                 /\ Result(c) = Seal(calls[c].pass, calls[c].message, 1, 0, 2, 0))
    /\ (Done(c, "Seal") /\ calls[c].err = NoErr)
           => \E ks \in 1..MaxDraws, kn \in 1..MaxDraws :
                 /\ calls[c].salt[1] = StreamByte(ks, 1)
                 /\ calls[c].nonce[1] = StreamByte(kn, 1)
                 /\ calls[c].salt = randBytes(ks, saltSize, saltSize).buf
                 /\ calls[c].nonce = generateNonce(kn, nonceSize).nonce
                 /\ Result(c) = Seal(calls[c].pass, calls[c].message,
                                     ks, saltSize, kn, nonceSize)

\* C10: with the preset fixed, under every interleaving each call runs as alone, and a
\* step of one call leaves the locals (salt, nonce, key) of every other call as
\* they were.
NoInterference ==
    /\ [](\A c \in Calls : RunsAsAlone(c))
    /\ [][\A c, d \in Calls :
            (c # d /\ calls'[c] # calls[c]) => calls'[d] = calls[d]]_vars

\* A Seal and an Open have both returned, side by side, the Open with the plaintext.
NoInterferenceWitness ==
    \E c, d \in Calls :
        /\ c # d
        /\ Done(c, "Seal") /\ calls[c].err = NoErr
        /\ Done(d, "Open") /\ calls[d].err = NoErr /\ Len(calls[d].out) > 0
        /\ IsZero(calls[c].naclKey) /\ IsZero(calls[d].naclKey)

\* The call of the run: made, and not yet taken back by main.
InCall == main.pc = "call" /\ calls[1].op # "idle"

\* C11: in every run of the command-line program crypto.Iterations is assigned at
\* most once, to IterationsLow under -l, before the run's Seal or Open call; from
\* the start of that call to its return it is the preset the flags chose, and no
\* statement of Seal, Open or deriveKey changes it.
CostPresetFixed ==
    /\ [](/\ main.writes <= 1
          /\ main.pc = "call" =>
                /\ Iterations = (IF main.lower THEN IterationsLow ELSE IterationsHigh)
                /\ calls[1].derives > 0 => calls[1].N = Iterations)
    /\ [][/\ Iterations' # Iterations =>
                /\ \A c \in Calls : calls[c].op = "idle" /\ calls'[c].op = "idle"
                /\ \/ main.pc = "exit" /\ Iterations' = IterationsHigh
                   \/ /\ main.pc = "flags" /\ main.lower /\ main.writes = 0
                      /\ main'.writes = 1 /\ Iterations' = IterationsLow
          /\ main'.writes # main.writes =>
                (main'.pc = "flags" \/ Iterations' = IterationsLow)
          /\ (InCall \/ InCall') => Iterations' = Iterations]_vars

\* A run under -l wrote the preset once and its Seal derived the key with it.
CostPresetFixedWitness ==
    /\ main.pc = "call" /\ main.lower /\ main.writes = 1
    /\ Done(1, "Seal") /\ calls[1].err = NoErr
    /\ calls[1].N = IterationsLow /\ Iterations = IterationsLow

\* C12: Open on the file a run wrote, with the passphrase of that run's Seal but
\* under the other preset, returns nil and ErrDecrypt; Open returns without error
\* only when its passphrase and its Iterations are those of the Seal, and then it
\* returns the Seal's plaintext.
PresetMismatchFails ==
    \A c \in Calls :
        (Done(c, "Open") /\ OnStored(c)) =>
            /\ (calls[c].pass = stored.pass /\ calls[c].N # stored.N)
                   => Failed(c, ErrDecrypt)
            /\ calls[c].err = NoErr
                   => /\ calls[c].pass = stored.pass
                      /\ calls[c].N = stored.N
                      /\ calls[c].out = stored.msg

\* A run without -l opened, with the right passphrase, what a run under -l had
\* sealed, and was refused after its one cipher call.
PresetMismatchFailsWitness ==
    /\ main.pc = "call" /\ ~main.lower
    /\ Done(1, "Open") /\ OnStored(1)
    /\ calls[1].pass = stored.pass
    /\ stored.N = IterationsLow /\ calls[1].N = IterationsHigh
    /\ Len(stored.msg) > 0 /\ calls[1].ciphers = 1 /\ Failed(1, ErrDecrypt)

====
